---- MODULE Spec2Model ----
(***************************************************************************)
(* Model of vmup (src/vmup/vmup.py): the SSH config editor of VMManager    *)
(* (list_hostnames, update_hostname, add_host) and the start_vm sequence.  *)
(*                                                                         *)
(* The SSH config file is a sequence of tokens.  Every whitespace          *)
(* character is its own token (" " or "\n"), every other token is a        *)
(* maximal run of non-whitespace characters in the original text (two      *)
(* adjacent non-whitespace tokens stand for one longer word).  The regular *)
(* expressions of the source are evaluated on these sequences.             *)
(***************************************************************************)
EXTENDS Integers, Sequences, FiniteSets, TLC

VARIABLES
  exists,   \* os.path.isfile(ssh_config_path)
  file,     \* content of the SSH config file (<<>> when it does not exist)
  last,     \* the last completed call: operation, arguments, result, file before
  sv,       \* the running start_vm call (pc, instance, public_ip, file at entry)
  procs,    \* concurrent tool invocations: position, arguments, lines read
  calls     \* number of tool invocations so far

vars == <<exists, file, last, sv, procs, calls>>

----------------------------------------------------------------------------
(* Text primitives *)

Blank == " "
NL == "\n"

IsSpace(t) == t \in {Blank, NL}

\* re.IGNORECASE on the words the model uses
Lower(t) ==
  CASE t = "Host" -> "host"
    [] t = "HostName" -> "hostname"
    [] t = "A" -> "a"
    [] OTHER -> t

RECURSIVE SkipSpace(_, _)
\* position after a maximal run of \s starting at i
SkipSpace(s, i) ==
  IF i <= Len(s) /\ IsSpace(s[i]) THEN SkipSpace(s, i + 1) ELSE i

RECURSIVE EndOfDot(_, _)
\* position after a maximal run of . (any character but newline) starting at i
EndOfDot(s, i) ==
  IF i <= Len(s) /\ s[i] # NL THEN EndOfDot(s, i + 1) ELSE i

RECURSIVE Concat(_)
\* f.writelines(lines): the lines written one after the other
Concat(ls) == IF ls = <<>> THEN <<>> ELSE Head(ls) \o Concat(Tail(ls))

RECURSIVE SplitFrom(_, _, _)
SplitFrom(s, i, cur) ==
  IF i > Len(s) THEN (IF cur = <<>> THEN <<>> ELSE <<cur>>)
  ELSE IF s[i] = NL THEN <<Append(cur, NL)>> \o SplitFrom(s, i + 1, <<>>)
  ELSE SplitFrom(s, i + 1, Append(cur, s[i]))

\* f.readlines(): lines keep their newline, the last one may lack it
readlines(s) == SplitFrom(s, 1, <<>>)

----------------------------------------------------------------------------
(* The regular expressions of vmup.py *)

\* ^\s*<kw>\s+  with kw = Host or HostName
KeywordRe(line, kw, ignorecase) ==
  LET i == SkipSpace(line, 1) IN
    /\ i + 1 <= Len(line)
    /\ IF ignorecase THEN Lower(line[i]) = Lower(kw) ELSE line[i] = kw
    /\ IsSpace(line[i + 1])

\* re.match(r'^\s*Host\s+', line, re.IGNORECASE)
HostRe(line) == KeywordRe(line, "Host", TRUE)

\* re.match(r'^\s*HostName\s+', line, re.IGNORECASE)
HostNameRe(line) == KeywordRe(line, "HostName", TRUE)

\* ^\s*Host\s+ re.escape(name) \s*$
HostNamedRe(line, name, ignorecase) ==
  LET i == SkipSpace(line, 1)
      j == SkipSpace(line, i + 1)
  IN /\ KeywordRe(line, "Host", ignorecase)
     /\ j <= Len(line)
     /\ IF ignorecase THEN Lower(line[j]) = Lower(name) ELSE line[j] = name
     /\ SkipSpace(line, j + 1) > Len(line)

\* update_hostname's test of a Host line against its argument (IGNORECASE)
UpdateTargetRe(line, host) == HostNamedRe(line, host, TRUE)

\* add_host's test of a line against its argument (no flags)
AddExistsRe(line, new_name) == HostNamedRe(line, new_name, FALSE)

\* group(1) of ^\s*<kw>\s+(.+) with re.IGNORECASE, <<>> when there is no match
GroupRe(line, kw) ==
  LET i == SkipSpace(line, 1)
      j == SkipSpace(line, i + 1)
      e == EndOfDot(line, j)
  IN IF ~KeywordRe(line, kw, TRUE) THEN <<>>
     ELSE IF j <= Len(line) THEN SubSeq(line, j, e - 1)
     \* only whitespace follows the keyword: \s+ gives back its last blank
     ELSE LET b == EndOfDot(line, i + 1) IN
          IF b - 1 >= i + 2 THEN SubSeq(line, b - 1, b - 1) ELSE <<>>

\* re.sub(r'(^\s*HostName\s+).*', r'\g<1>' + new_ip, line): no IGNORECASE
SubHostName(line, new_ip) ==
  LET i == SkipSpace(line, 1)
      j == SkipSpace(line, i + 1)
      k == EndOfDot(line, j)
  IN IF KeywordRe(line, "HostName", FALSE)
     THEN SubSeq(line, 1, j - 1) \o new_ip \o SubSeq(line, k, Len(line))
     ELSE line

----------------------------------------------------------------------------
(* The handlers of VMManager as functions of the file content *)

Arrow == <<Blank, "->", Blank>>

RECURSIVE ListScan_no_host_test(_, _, _)
\* ListScan without the "and current_host" test
ListScan_no_host_test(lines, current_host, hostnames) ==
  IF lines = <<>> THEN hostnames
  ELSE LET line == Head(lines)
           host_match == GroupRe(line, "Host")
           cur == IF host_match # <<>> THEN host_match ELSE current_host
           hostname_match == GroupRe(line, "HostName")
       IN ListScan_no_host_test(Tail(lines), cur,
            IF hostname_match # <<>>
            THEN Append(hostnames, cur \o Arrow \o hostname_match)
            ELSE hostnames)

RECURSIVE ListScan(_, _, _)
\* the loop of list_hostnames; current_host = <<>> stands for None
ListScan(lines, current_host, hostnames) ==
  IF lines = <<>> THEN hostnames
  ELSE LET line == Head(lines)
           host_match == GroupRe(line, "Host")
           cur == IF host_match # <<>> THEN host_match ELSE current_host
           hostname_match == GroupRe(line, "HostName")
       IN ListScan(Tail(lines), cur,
            IF hostname_match # <<>> /\ cur # <<>>
            THEN Append(hostnames, cur \o Arrow \o hostname_match)
            ELSE hostnames)

list_hostnames(ex, content) ==
  IF ~ex THEN <<>> ELSE ListScan(readlines(content), <<>>, <<>>)

\* one HostName line of the target block, as update_hostname rewrites it
RewriteLine(line, new_ip) == SubHostName(line, new_ip)

RECURSIVE UpdateScan(_, _, _, _, _, _)
\* the loop of update_hostname
UpdateScan(lines, host, new_ip, in_target_host_block, host_found, modified_lines) ==
  IF lines = <<>>
  THEN [host_found |-> host_found, modified_lines |-> modified_lines]
  ELSE LET line == Head(lines)
           in_block == IF HostRe(line) THEN UpdateTargetRe(line, host)
                       ELSE in_target_host_block
           found == IF HostRe(line) THEN host_found \/ in_block ELSE host_found
       IN UpdateScan(Tail(lines), host, new_ip, in_block, found,
            Append(modified_lines,
                   IF in_block /\ HostNameRe(line)
                   THEN RewriteLine(line, new_ip) ELSE line))

\* what update_hostname computes from the lines it read
UpdateLines(lines, host, new_ip) ==
  UpdateScan(lines, host, new_ip, FALSE, FALSE, <<>>)

\* rewrite with the file opened in mode 'a'
rewrite_append(content, modified_lines) == content \o Concat(modified_lines)

\* open(path, 'w') and f.writelines(modified_lines): the file is replaced
rewrite(content, modified_lines) == Concat(modified_lines)

\* append with the file opened in mode "w"
append_overwrite(content, entry) == entry

\* open(path, "a") and f.write(new_entry): the file is extended
append(content, entry) == content \o entry

\* update_hostname: result and the file afterwards
update_hostname(ex, content, host, new_ip) ==
  IF ~ex THEN [ret |-> "False", file |-> content, exists |-> ex]
  ELSE LET r == UpdateLines(readlines(content), host, new_ip) IN
       IF ~r.host_found THEN [ret |-> "False", file |-> content, exists |-> ex]
       ELSE [ret |-> "True", file |-> rewrite(content, r.modified_lines),
             exists |-> TRUE]

Indent == <<Blank, Blank, Blank, Blank>>

\* new_entry with the fallback user instead of the configured one
new_entry_default_user(new_name, user) ==
     <<NL>>
  \o <<"Host", Blank, new_name, NL>>
  \o Indent \o <<"HostName", Blank, "1.1.1.1", NL>>
  \o Indent \o <<"IdentityFile", Blank, "~/.ssh/google_compute_engine", NL>>
  \o Indent \o <<"UserKnownHostsFile=~/.ssh/google_compute_known_hosts", NL>>
  \o Indent \o <<"IdentitiesOnly=yes", NL>>
  \o Indent \o <<"CheckHostIP=no", NL>>
  \o Indent \o <<"User", Blank, "default_user", NL>>

\* any(re.match(...) for line in f) in add_host
AlreadyExists(lines, new_name) ==
  \E n \in 1..Len(lines) : AddExistsRe(lines[n], new_name)

\* the f-string new_entry of add_host
new_entry(new_name, user) ==
     <<NL>>
  \o <<"Host", Blank, new_name, NL>>
  \o Indent \o <<"HostName", Blank, "1.1.1.1", NL>>
  \o Indent \o <<"IdentityFile", Blank, "~/.ssh/google_compute_engine", NL>>
  \o Indent \o <<"UserKnownHostsFile=~/.ssh/google_compute_known_hosts", NL>>
  \o Indent \o <<"IdentitiesOnly=yes", NL>>
  \o Indent \o <<"CheckHostIP=no", NL>>
  \o Indent \o <<"User", Blank, user, NL>>

\* add_host that writes the entry before it looks for an existing Host line
add_host_write_first(ex, content, new_name, user) ==
  IF ~ex THEN [ret |-> "raise", file |-> content, exists |-> ex]
  ELSE [ret |-> IF AlreadyExists(readlines(content), new_name)
                THEN "False" ELSE "True",
        file |-> content \o new_entry(new_name, user), exists |-> TRUE]

\* add_host: result and the file afterwards; open(path, "r") raises when
\* the file is missing
add_host(ex, content, new_name, user) ==
  IF ~ex THEN [ret |-> "raise", file |-> content, exists |-> ex]
  ELSE IF AlreadyExists(readlines(content), new_name)
       THEN [ret |-> "False", file |-> content, exists |-> ex]
       ELSE [ret |-> "True", file |-> append(content, new_entry(new_name, user)),
             exists |-> TRUE]

\* start_vm that fails when add_host reported an existing host
start_vm_result_both(add_success, update_success) ==
  IF add_success = "True" THEN update_success ELSE "False"

\* the value start_vm returns once both editor calls have returned
start_vm_result(add_success, update_success) == update_success

----------------------------------------------------------------------------
(* Inputs *)

MaxInitLines == 2
MaxCalls == 2

\* lines a hand-written SSH config can hold
LineSet ==
  { <<"Host", Blank, "a", NL>>,
    <<"Host", Blank, "A", NL>>,
    <<"Host", Blank, "a", Blank, "b", NL>>,
    <<Blank, "HostName", Blank, "10.0.0.1", NL>>,
    <<"hostname", Blank, "10.0.0.2", NL>>,
    <<"HostName", Blank, NL>> }

\* the two-block configuration of the documented examples
SampleConfig ==
     <<"Host", Blank, "a", NL>> \o <<"HostName", Blank, "10.0.0.1", NL>>
  \o <<"Host", Blank, "b", NL>> \o <<"HostName", Blank, "10.0.0.2", NL>>

RECURSIVE LineSeqs(_)
LineSeqs(n) ==
  IF n = 0 THEN {<<>>}
  ELSE LET shorter == LineSeqs(n - 1) IN
       shorter \cup {Append(ls, l) : ls \in {x \in shorter : Len(x) = n - 1}, l \in LineSet}

\* a block with two HostName lines and one without a value
LongConfig ==
     <<"Host", Blank, "a", NL>> \o <<"HostName", Blank, "10.0.0.1", NL>>
  \o <<Blank, "HostName", Blank, "10.0.0.2", NL>> \o <<"User", Blank, "u", NL>>
  \o <<"Host", Blank, "b", NL>> \o <<"HostName", Blank, NL>>
  \o <<"User", Blank, "u">>

Files(n) == {Concat(ls) : ls \in LineSeqs(n)} \cup {SampleConfig, LongConfig}

InitFiles == Files(MaxInitLines)

\* command-line arguments and settings values
Names == {"a", "c"}
Ips == {<<"5.5.5.5">>}
Users == {"default_user", "bob"}
Settings == {"", "set"}          \* a project or zone value: unset/empty, or set

\* what run_command returns: stdout, or "Error: " and stderr
ErrorOutput == <<"Error:", Blank, "failed">>
StartOutputs == {<<"done.">>, ErrorOutput}
\* get_public_ip prints nothing for an instance without an external address
IpOutputs == Ips \cup {<<>>, ErrorOutput}

\* the test text == "Error" instead of "Error" in text
HasError_equal(text) == text = <<"Error">>

\* "Error" in text
HasError(text) == \E n \in 1..Len(text) : text[n] = "Error:"

----------------------------------------------------------------------------
(* State machine: one tool invocation after the other *)

NoCall ==
  [op |-> "none", host |-> "", ip |-> <<>>, user |-> "", ret |-> "",
   out |-> <<>>, pre |-> <<>>, preExists |-> FALSE, log |-> <<>>,
   cloud |-> <<>>, added |-> ""]

SvIdle ==
  [pc |-> "idle", instance |-> "", public_ip |-> <<>>, pre |-> <<>>,
   preExists |-> FALSE, log |-> <<>>, cloud |-> <<>>, add_success |-> ""]

Procs == {1, 2}

ProcIdle ==
  [pc |-> "idle", host |-> "", ip |-> <<>>, user |-> "", read |-> <<>>]

InitFrom(files) ==
  /\ \/ exists = TRUE /\ file \in files
     \/ exists = FALSE /\ file = <<>>
  /\ last = NoCall
  /\ sv = SvIdle
  /\ procs = [p \in Procs |-> ProcIdle]
  /\ calls = 0

Init == InitFrom(InitFiles)

\* the record of a completed editor call; added is the name a successful
\* add_host put into the file in the call right before this one
Call(op, host, ip, user, ret, out) ==
  [op |-> op, host |-> host, ip |-> ip, user |-> user, ret |-> ret,
   out |-> out, pre |-> file, preExists |-> exists, log |-> <<>>,
   cloud |-> <<>>,
   added |-> IF last.op = "add" /\ last.ret = "True" THEN last.host ELSE ""]

\* vmup list
ListHostnames ==
  /\ calls < MaxCalls
  /\ calls' = calls + 1
  /\ last' = Call("list", "", <<>>, "", "", list_hostnames(exists, file))
  /\ UNCHANGED <<exists, file, sv, procs>>

\* vmup update <host> <new_ip>
UpdateHostname(host, new_ip) ==
  /\ calls < MaxCalls
  /\ calls' = calls + 1
  /\ LET r == update_hostname(exists, file, host, new_ip) IN
       /\ file' = r.file
       /\ exists' = r.exists
       /\ last' = Call("update", host, new_ip, "", r.ret, <<>>)
  /\ UNCHANGED <<sv, procs>>

\* vmup add <new_name>
AddHost(new_name, user) ==
  /\ calls < MaxCalls
  /\ calls' = calls + 1
  /\ LET r == add_host(exists, file, new_name, user) IN
       /\ file' = r.file
       /\ exists' = r.exists
       /\ last' = Call("add", new_name, <<>>, user, r.ret, <<>>)
  /\ UNCHANGED <<sv, procs>>

\* start_vm returns (or the process exits): the call is recorded
Finish(ret, log, cloud) ==
  /\ last' = [op |-> "start", host |-> sv.instance, ip |-> sv.public_ip,
              user |-> "", ret |-> ret, out |-> <<>>, pre |-> sv.pre,
              preExists |-> sv.preExists, log |-> log, cloud |-> cloud,
              added |-> ""]
  /\ sv' = SvIdle

\* vmup start <instance>: get_project_and_zone
StartVm(instance, project, zone) ==
  /\ sv.pc = "idle"
  /\ calls = 0
  /\ calls' = calls + 1
  /\ IF project = "" \/ zone = ""
     THEN /\ last' = [NoCall EXCEPT !.op = "start", !.host = instance,
                        !.ret = "exit", !.pre = file, !.preExists = exists]
          /\ sv' = SvIdle
     ELSE /\ sv' = [SvIdle EXCEPT !.pc = "start_instance",
                        !.instance = instance, !.pre = file,
                        !.preExists = exists]
          /\ UNCHANGED last
  /\ UNCHANGED <<exists, file, procs>>

\* gcp_utils.start_instance and the "Error" test of its output
StartInstance(start_result) ==
  /\ sv.pc = "start_instance"
  /\ LET log == Append(sv.log, "start_instance")
         cloud == Append(sv.cloud, start_result)
     IN IF HasError(start_result)
        THEN Finish("False", log, cloud)
        ELSE /\ sv' = [sv EXCEPT !.pc = "get_public_ip", !.log = log,
                                 !.cloud = cloud]
             /\ UNCHANGED last
  /\ UNCHANGED <<exists, file, procs, calls>>

\* gcp_utils.get_public_ip and the "Error" test of its output
GetPublicIp(public_ip) ==
  /\ sv.pc = "get_public_ip"
  /\ LET log == Append(sv.log, "get_public_ip")
         cloud == Append(sv.cloud, public_ip)
     IN IF HasError(public_ip)
        THEN Finish("False", log, cloud)
        ELSE /\ sv' = [sv EXCEPT !.pc = "add_host", !.log = log,
                                 !.cloud = cloud, !.public_ip = public_ip]
             /\ UNCHANGED last
  /\ UNCHANGED <<exists, file, procs, calls>>

\* update_success = self.add_host(instance); an exception ends start_vm
StartVmAddHost(user) ==
  /\ sv.pc = "add_host"
  /\ LET r == add_host(exists, file, sv.instance, user)
         log == Append(sv.log, "add_host")
     IN /\ file' = r.file
        /\ exists' = r.exists
        /\ IF r.ret = "raise"
           THEN Finish("False", log, sv.cloud)
           ELSE /\ sv' = [sv EXCEPT !.pc = "update_hostname", !.log = log,
                                    !.add_success = r.ret]
                /\ UNCHANGED last
  /\ UNCHANGED <<procs, calls>>

\* update_success = self.update_hostname(instance, public_ip); return
StartVmUpdateHostname ==
  /\ sv.pc = "update_hostname"
  /\ LET r == update_hostname(exists, file, sv.instance, sv.public_ip) IN
       /\ file' = r.file
       /\ exists' = r.exists
       /\ Finish(start_vm_result(sv.add_success, r.ret),
                 Append(sv.log, "update_hostname"), sv.cloud)
  /\ UNCHANGED <<procs, calls>>

Next ==
  \/ ListHostnames
  \/ \E host \in Names, new_ip \in Ips : UpdateHostname(host, new_ip)
  \/ \E new_name \in Names, user \in Users : AddHost(new_name, user)

Spec == Init /\ [][Next]_vars

\* one "vmup start" invocation, step by step
InitStart == InitFrom(InitFiles)

NextStart ==
  \/ \E instance \in Names, project \in Settings, zone \in Settings :
       StartVm(instance, project, zone)
  \/ \E start_result \in StartOutputs : StartInstance(start_result)
  \/ \E public_ip \in IpOutputs : GetPublicIp(public_ip)
  \/ \E user \in Users : StartVmAddHost(user)
  \/ StartVmUpdateHostname

SpecStart == InitStart /\ [][NextStart]_vars

---------------------------------------------------------------------------------------------------------------------------------------------------
(* Two tool invocations against the same file: the reads and the writes of  *)
(* update_hostname and add_host are separate steps                          *)

MaxConcLines == 2

InitConc == InitFrom(Files(MaxConcLines))

\* the record of a completed write; out holds the content the writer had read
Write(p, op) ==
  [NoCall EXCEPT !.op = op, !.host = procs[p].host, !.ip = procs[p].ip,
                 !.user = procs[p].user, !.ret = "True", !.out = procs[p].read,
                 !.pre = file, !.preExists = exists]

\* update_hostname: the isfile test, then open(path, 'r') and readlines
UpdateRead(p, host, new_ip) ==
  /\ procs[p].pc = "idle"
  /\ procs' = [procs EXCEPT ![p] =
       IF ~exists THEN [ProcIdle EXCEPT !.pc = "done"]
       ELSE [pc |-> "update_write", host |-> host, ip |-> new_ip,
             user |-> "", read |-> file]]
  /\ UNCHANGED <<exists, file, last, sv, calls>>

\* update_hostname: the scan of the lines read, then the write (or the
\* "not found" return)
UpdateWrite(p) ==
  /\ procs[p].pc = "update_write"
  /\ LET r == UpdateLines(readlines(procs[p].read), procs[p].host, procs[p].ip) IN
       IF r.host_found
       THEN /\ file' = rewrite(file, r.modified_lines)
            /\ last' = Write(p, "update")
       ELSE UNCHANGED <<file, last>>
  /\ procs' = [procs EXCEPT ![p] = [ProcIdle EXCEPT !.pc = "done"]]
  /\ UNCHANGED <<exists, sv, calls>>

\* add_host: open(path, "r") and the search for an existing Host line
AddRead(p, new_name, user) ==
  /\ procs[p].pc = "idle"
  /\ procs' = [procs EXCEPT ![p] =
       IF ~exists \/ AlreadyExists(readlines(file), new_name)
       THEN [ProcIdle EXCEPT !.pc = "done"]
       ELSE [pc |-> "add_write", host |-> new_name, ip |-> <<>>,
             user |-> user, read |-> file]]
  /\ UNCHANGED <<exists, file, last, sv, calls>>

\* add_host: open(path, "a") and f.write(new_entry)
AddWrite(p) ==
  /\ procs[p].pc = "add_write"
  /\ file' = append(file, new_entry(procs[p].host, procs[p].user))
  /\ last' = Write(p, "add")
  /\ procs' = [procs EXCEPT ![p] = [ProcIdle EXCEPT !.pc = "done"]]
  /\ UNCHANGED <<exists, sv, calls>>

NextConc ==
  \/ \E p \in Procs, host \in Names, new_ip \in Ips : UpdateRead(p, host, new_ip)
  \/ \E p \in Procs : UpdateWrite(p)
  \/ \E p \in Procs, new_name \in Names, user \in Users : AddRead(p, new_name, user)
  \/ \E p \in Procs : AddWrite(p)

SpecConc == InitConc /\ [][NextConc]_vars

-----
(* Vocabulary of the properties *)

Pre == readlines(last.pre)
Now == readlines(file)

\* the words of a line, whitespace dropped
Words(line) == SelectSeq(line, LAMBDA t : ~IsSpace(t))

\* the Host declaration line that opens the block line n lies in (0: none)
BlockStart(ls, n) ==
  LET S == {m \in 1..n : HostRe(ls[m])} IN
    IF S = {} THEN 0 ELSE CHOOSE m \in S : \A k \in S : k <= m

\* line n lies in a block whose Host line names host
InTarget(ls, n, host) ==
  /\ BlockStart(ls, n) # 0
  /\ UpdateTargetRe(ls[BlockStart(ls, n)], host)

HasBlock(ls, host) == \E n \in 1..Len(ls) : UpdateTargetRe(ls[n], host)

\* the HostName lines of the block opened at line m
HostNameLines(ls, m) ==
  {n \in (m + 1)..Len(ls) : BlockStart(ls, n) = m /\ HostNameRe(ls[n])}

\* what follows the keyword and its whitespace, up to the end of the line
Value(line) ==
  LET j == SkipSpace(line, SkipSpace(line, 1) + 1) IN
    SubSeq(line, j, EndOfDot(line, j) - 1)

RECURSIVE SkipBlank(_, _)
SkipBlank(s, i) == IF i <= Len(s) /\ s[i] = Blank THEN SkipBlank(s, i + 1) ELSE i

\* a HostName line with its value replaced: leading whitespace, keyword and
\* the blanks after it are kept, and so is the end of the line
WithValue(line, v) ==
  LET j == SkipBlank(line, SkipSpace(line, 1) + 1) IN
    SubSeq(line, 1, j - 1) \o v \o SubSeq(line, EndOfDot(line, j), Len(line))

IsPrefix(a, b) == Len(a) <= Len(b) /\ SubSeq(b, 1, Len(a)) = a

----------------------------------------------------------------------------
(* C1: update_hostname on a host that matches a Host line succeeds and      *)
(* writes back as many lines, each of them identical to the original but    *)
(* for the HostName lines of the target blocks.                             *)
C1_UpdateFrame ==
  (last.op = "update" /\ last.preExists /\ HasBlock(Pre, last.host)) =>
    /\ last.ret = "True"
    /\ Len(Now) = Len(Pre)
    /\ \A n \in 1..Len(Pre) :
         ~(InTarget(Pre, n, last.host) /\ HostNameRe(Pre[n])) => Now[n] = Pre[n]

(* C2: a failed update_hostname or add_host leaves the file as it was, and  *)
(* a missing file is not created; no matching Host line makes update fail,  *)
(* an existing Host line makes add fail.                                    *)
C2_FailureLeavesFile ==
  LET pre == Pre IN
  /\ (last.op \in {"update", "add"} /\ last.ret # "True") =>
       file = last.pre /\ exists = last.preExists
  /\ (last.op \in {"update", "add"} /\ ~last.preExists) =>
       ~exists /\ last.ret # "True"
  /\ (last.op = "update" /\ ~HasBlock(pre, last.host)) => last.ret = "False"
  /\ (last.op = "add" /\ last.preExists
        /\ \E n \in 1..Len(pre) : Words(pre[n]) = <<"Host", last.host>>
                                   /\ HostRe(pre[n])) =>
       last.ret = "False"

C2_Witness ==
  last.op = "update" /\ last.ret = "False" /\ last.preExists /\ Len(file) > 0

\* the directive lines of the block add_host appends, as words
ExpectedBlock(name, user) ==
  << <<"Host", name>>,
     <<"HostName", "1.1.1.1">>,
     <<"IdentityFile", "~/.ssh/google_compute_engine">>,
     <<"UserKnownHostsFile=~/.ssh/google_compute_known_hosts">>,
     <<"IdentitiesOnly=yes">>,
     <<"CheckHostIP=no">>,
     <<"User", user>> >>

RECURSIVE WordLines(_)
\* the non-empty lines of a list of lines, as words
WordLines(ls) ==
  IF ls = <<>> THEN <<>>
  ELSE (IF Words(Head(ls)) = <<>> THEN <<>> ELSE <<Words(Head(ls))>>)
       \o WordLines(Tail(ls))

(* C3: add_host on a file without a block of that name succeeds and the     *)
(* file is the original content followed by the one templated block; a      *)
(* second add_host of the same name right after it fails.                   *)
C3_AddAppendsBlock ==
  /\ (last.op = "add" /\ last.preExists /\ ~HasBlock(Pre, last.host)) =>
       /\ last.ret = "True"
       /\ IsPrefix(last.pre, file)
       /\ WordLines(readlines(SubSeq(file, Len(last.pre) + 1, Len(file))))
            = ExpectedBlock(last.host, last.user)
  /\ (last.op = "add" /\ last.added = last.host) =>
       last.ret = "False" /\ file = last.pre

C3_Witness ==
  last.op = "add" /\ last.ret = "False" /\ last.added = last.host

\* one block for host, whose HostName lines (at least one) all carry v
OneBlockWith(ls, host, v) ==
  /\ Cardinality({m \in 1..Len(ls) : UpdateTargetRe(ls[m], host)}) = 1
  /\ \E m \in 1..Len(ls) :
       /\ UpdateTargetRe(ls[m], host)
       /\ HostNameLines(ls, m) # {}
       /\ \A n \in HostNameLines(ls, m) : Value(ls[n]) = v

Placeholder == <<"1.1.1.1">>

(* C4: once both cloud calls succeeded, start_vm returns what               *)
(* update_hostname returns, whatever add_host returned; on a file without   *)
(* a block for the instance it returns success and the file ends up with a  *)
(* block 'Host instance' whose HostName is the IP, not the placeholder.     *)
C4_StartVmPatchesHost ==
  (last.op = "start" /\ Len(last.log) >= 3) =>
    /\ (last.ret = "True") <=> (exists /\ HasBlock(Now, last.host))
    /\ (last.preExists /\ ~HasBlock(Pre, last.host)) =>
         /\ last.ret = "True"
         /\ \E m \in 1..Len(Now) : Words(Now[m]) = <<"Host", last.host>>
         /\ OneBlockWith(Now, last.host, last.cloud[2])
         /\ ~OneBlockWith(Now, last.host, Placeholder)

C4_Witness ==
  /\ last.op = "start" /\ last.ret = "True" /\ last.preExists
  /\ ~HasBlock(Pre, last.host) /\ last.cloud[2] = <<"5.5.5.5">>

StartSteps == <<"start_instance", "get_public_ip", "add_host", "update_hostname">>

ErrorText(text) == Len(text) > 0 /\ text[1] = "Error:"

(* C5: start_vm writes the file only after project and zone were found set, *)
(* the start call returned no error and get_public_ip returned no error, in *)
(* that order; an aborted run reports failure and leaves the file as it was.*)
C5_NoWriteBeforeSuccess ==
  /\ sv.pc \in {"start_instance", "get_public_ip", "add_host"} =>
       file = sv.pre /\ exists = sv.preExists
  /\ last.op = "start" =>
       /\ IsPrefix(last.log, StartSteps)
       /\ Len(last.cloud) = (IF Len(last.log) < 2 THEN Len(last.log) ELSE 2)
       /\ last.ret = "exit" => last.log = <<>>
       /\ (Len(last.cloud) >= 1 /\ ErrorText(last.cloud[1])) => Len(last.log) = 1
       /\ (Len(last.cloud) >= 2 /\ ErrorText(last.cloud[2])) => Len(last.log) = 2
       /\ Len(last.log) < 4 =>
            /\ last.ret \in {"False", "exit"}
            /\ file = last.pre /\ exists = last.preExists
       /\ (file # last.pre \/ exists # last.preExists) =>
            /\ Len(last.log) >= 3
            /\ ~ErrorText(last.cloud[1]) /\ ~ErrorText(last.cloud[2])

C5_Witness ==
  /\ last.op = "start" /\ last.ret = "False" /\ Len(last.log) = 2
  /\ Len(file) > 0

\* index of the last line up to n that list_hostnames takes as a Host line
LastHost(ls, n) ==
  LET S == {m \in 1..n : GroupRe(ls[m], "Host") # <<>>} IN
    IF S = {} THEN 0 ELSE CHOOSE m \in S : \A k \in S : k <= m

\* the first word after the Host keyword
NameToken(line) ==
  LET j == SkipSpace(line, SkipSpace(line, 1) + 1) IN SubSeq(line, j, j)

RECURSIVE Entries(_, _, _)
\* one entry per HostName line below a Host line, in file order
Entries(ls, n, wholeRest) ==
  IF n = 0 THEN <<>>
  ELSE Entries(ls, n - 1, wholeRest) \o
       (IF GroupRe(ls[n], "HostName") # <<>> /\ LastHost(ls, n) # 0
        THEN << (IF wholeRest THEN GroupRe(ls[LastHost(ls, n)], "Host")
                 ELSE NameToken(ls[LastHost(ls, n)]))
                \o <<" ", "->", " ">> \o GroupRe(ls[n], "HostName") >>
        ELSE <<>>)

SampleListing ==
  << <<"a", " ", "->", " ", "10.0.0.1">>, <<"b", " ", "->", " ", "10.0.0.2">> >>

(* C6 as stated: the host of an entry is the name token of the Host line.   *)
C6_NameToken ==
  last.op = "list" =>
    /\ ~last.preExists => last.out = <<>>
    /\ last.preExists => last.out = Entries(Pre, Len(Pre), FALSE)
    /\ (last.preExists /\ last.pre = SampleConfig) => last.out = SampleListing

(* C6 amended: list_hostnames returns, in file order, one entry per         *)
(* HostName line below a Host line; the host of an entry is everything that *)
(* follows the Host keyword and its whitespace on the last Host line above, *)
(* the value everything that follows the HostName keyword.                  *)
C6_ListEntries ==
  last.op = "list" =>
    /\ ~last.preExists => last.out = <<>>
    /\ last.preExists => last.out = Entries(Pre, Len(Pre), TRUE)
    /\ (last.preExists /\ last.pre = SampleConfig) => last.out = SampleListing

C6_Witness ==
  /\ last.op = "list" /\ last.preExists /\ Len(last.out) >= 2
  /\ last.out[1] # last.out[2]

\* the block names of a file are pairwise distinct ignoring case
DistinctNames(ls) ==
  \A m, n \in 1..Len(ls) :
    (HostRe(ls[m]) /\ HostRe(ls[n]) /\ m # n /\ Value(ls[m]) # <<>>) =>
      ~UpdateTargetRe(ls[n], Value(ls[m])[1])

(* C7: add_host fails exactly when update_hostname would find a block for   *)
(* the same name, so no call makes two blocks equal ignoring case.          *)
C7_SameRule ==
  (last.op = "add" /\ last.preExists) =>
    /\ (last.ret = "False") <=> HasBlock(Pre, last.host)
    /\ DistinctNames(Pre) => DistinctNames(Now)

(* C8: a successful update_hostname rewrites exactly the first HostName     *)
(* line of a target block, keeping what precedes the value, and leaves the  *)
(* later HostName lines of the block alone (stated for files whose HostName *)
(* lines all carry a value).                                                *)
C8_FirstHostNameOnly ==
  (last.op = "update" /\ last.ret = "True"
     /\ \A n \in 1..Len(Pre) : HostNameRe(Pre[n]) => Value(Pre[n]) # <<>>) =>
    /\ Len(Now) = Len(Pre)
    /\ \A n \in 1..Len(Pre) :
         (InTarget(Pre, n, last.host) /\ HostNameRe(Pre[n])) =>
           IF \A k \in HostNameLines(Pre, BlockStart(Pre, n)) : n <= k
           THEN Now[n] = WithValue(Pre[n], last.ip)
           ELSE Now[n] = Pre[n]

(* C9: while start_vm runs on a file without a block for the instance, the  *)
(* file has no block for it up to add_host, then one block with HostName    *)
(* 1.1.1.1, then (after update_hostname) one block with the IP; the         *)
(* original content is kept in front of it throughout.                      *)
C9_ThreeStates ==
  /\ (sv.pc # "idle" /\ sv.preExists /\ ~HasBlock(readlines(sv.pre), sv.instance)) =>
       IF sv.pc = "update_hostname"
       THEN /\ OneBlockWith(Now, sv.instance, Placeholder)
            /\ ~OneBlockWith(Now, sv.instance, sv.cloud[2])
            /\ IsPrefix(sv.pre, file)
       ELSE file = sv.pre
  /\ (last.op = "start" /\ last.preExists /\ ~HasBlock(Pre, last.host)) =>
       IF Len(last.log) = 4
       THEN /\ OneBlockWith(Now, last.host, last.cloud[2])
            /\ ~OneBlockWith(Now, last.host, Placeholder)
            /\ IsPrefix(last.pre, file)
       ELSE file = last.pre

C9_Witness ==
  /\ sv.pc = "update_hostname" /\ sv.preExists /\ Len(sv.pre) > 0
  /\ ~HasBlock(readlines(sv.pre), sv.instance)

(* C10 as stated: after any interleaving the file is the complete document  *)
(* the last writer computed from the content it had read.                   *)
C10_LastWriterWins ==
  /\ last.op = "update" =>
       file = Concat(UpdateLines(readlines(last.out), last.host, last.ip).modified_lines)
  /\ last.op = "add" =>
       file = last.out \o new_entry(last.host, last.user)

(* C10 amended: update_hostname rewrites the whole file from the lines it   *)
(* read, so after its write the file is the document it computed and holds  *)
(* no change made since its read; add_host appends its block to what the    *)
(* file holds at the time of the write, changes made since its read kept.   *)
C10_RewriteOrAppend ==
  /\ last.op = "update" =>
       file = Concat(UpdateLines(readlines(last.out), last.host, last.ip).modified_lines)
  /\ last.op = "add" =>
       /\ IsPrefix(last.pre, file)
       /\ WordLines(readlines(SubSeq(file, Len(last.pre) + 1, Len(file))))
            = ExpectedBlock(last.host, last.user)

C10_Witness == last.op = "add" /\ last.pre # last.out

====
